---- MODULE Spec2Model ----
(***************************************************************************)
(* A model of spotisonic/config.py: a JSON configuration file merged with  *)
(* hard-coded defaults, with load / save / get / set / reset operations.   *)
(*                                                                         *)
(* The file is modelled as the sequence of lexical tokens of its text, so  *)
(* that json.dump (values -> text) and json.load (text -> values or an     *)
(* error) are real conversions: a truncated or hand-written text can fail  *)
(* to parse.  A Python dict is an insertion-ordered sequence of entries    *)
(* with unique keys; two dicts are equal when they are equal as mappings.  *)
(***************************************************************************)
EXTENDS Integers, Sequences, FiniteSets, TLC

VARIABLES
    fs,      \* the file system at CONFIG_PATH: [dir, exists, data]
    op,      \* the last call of the single caller and what it returned
    run,     \* the SetValue calls made since the last other write
    crash,   \* whether a save was cut short, and the file system before it
    pc,      \* concurrent callers: position of each inside set_config_value
    arg,     \* concurrent callers: the (key, value) each was called with
    loc,     \* concurrent callers: the local variable `config`
    seen,    \* concurrent callers: what load_config returned to each
    clean,   \* concurrent callers: no foreign write since this caller's open(.., 'w')
    last     \* concurrent callers: the caller whose save completed last (0: none)

vars == <<fs, op, run, crash, pc, arg, loc, seen, clean, last>>

-----------------------------------------------------------------------------
(* Python values: int, bool, str and None, tagged by their type *)

PyInt(n) == [t |-> "int", v |-> n]

PyBool(b) == [t |-> "bool", v |-> b]

PyStr(s) == [t |-> "str", v |-> s]

None == [t |-> "null", v |-> 0]

Entry(key, value) == [k |-> key, v |-> value]

(* DEFAULT_CONFIG, in its insertion order *)
DEFAULT_CONFIG ==
    << Entry("default_preview_length", PyInt(30)),
       Entry("default_shuffle", PyBool(TRUE)),
       Entry("default_scrobble", PyBool(TRUE)),
       Entry("min_liked_for_artist", PyInt(1)),
       Entry("min_bookmarked_for_artist", PyInt(1)),
       Entry("max_plays_for_new_artist", PyInt(0)) >>

-----------------------------------------------------------------------------
(* Python dict operations *)

DictKeys(d) == { d[i].k : i \in 1..Len(d) }

IndexOf(d, key) == CHOOSE i \in 1..Len(d) : d[i].k = key

(* d[key], for key in d *)
DictAt(d, key) == d[IndexOf(d, key)].v

(* d.get(key, default) *)
DictGet(d, key, default) ==
    IF key \in DictKeys(d) THEN DictAt(d, key) ELSE default

(* d[key] = value: an existing key keeps its position, a new key is appended *)
DictSet(d, key, value) ==
    IF key \in DictKeys(d)
    THEN [d EXCEPT ![IndexOf(d, key)] = Entry(key, value)]
    ELSE Append(d, Entry(key, value))

RECURSIVE DictUpdate(_, _)
(* d.update(e) *)
DictUpdate(d, e) ==
    IF e = <<>> THEN d
    ELSE DictUpdate(DictSet(d, e[1].k, e[1].v), Tail(e))

(* Merge with the precedence reversed: {**b, **a} *)
MergeDefaultsWin(a, b) == DictUpdate(DictUpdate(<<>>, b), a)

(* {**a, **b} *)
Merge(a, b) == DictUpdate(DictUpdate(<<>>, a), b)

(* a dict seen as a mapping: what == compares *)
AsMap(d) == [key \in DictKeys(d) |-> DictAt(d, key)]

DictEq(a, b) == AsMap(a) = AsMap(b)

-----------------------------------------------------------------------------
(* The text of the file, as the sequence of its lexical tokens *)

Tok(kind, val) == [t |-> kind, v |-> val]

LBrace == Tok("{", 0)

RBrace == Tok("}", 0)

Colon == Tok(":", 0)

Comma == Tok(",", 0)

Newline == Tok("nl", 0)

Spaces(n) == Tok("sp", n)

(* a bare word that is no JSON literal, such as  invalid  or a torn  tru *)
Word(w) == Tok("word", w)

(* a string whose closing quote is missing *)
Unterminated(s) == Tok("unterminated", s)

IsWhitespace(tok) == tok.t \in {"nl", "sp"}

IsScalarToken(tok) == tok.t \in {"str", "int", "true", "false", "null"}

(* EncodeValue writing a bool as Python prints it (True, False), which is no
   JSON literal *)
EncodeValuePython(value) ==
    CASE value.t = "str" -> Tok("str", value.v)
      [] value.t = "int" -> Tok("int", value.v)
      [] value.t = "bool" -> IF value.v THEN Word("True") ELSE Word("False")
      [] value.t = "null" -> Tok("null", 0)

(* json.encoder: the text of one scalar value *)
EncodeValue(value) ==
    CASE value.t = "str" -> Tok("str", value.v)
      [] value.t = "int" -> Tok("int", value.v)
      [] value.t = "bool" -> IF value.v THEN Tok("true", 0) ELSE Tok("false", 0)
      [] value.t = "null" -> Tok("null", 0)

(* json.decoder: the value of one scalar token *)
DecodeValue(tok) ==
    CASE tok.t = "str" -> PyStr(tok.v)
      [] tok.t = "int" -> PyInt(tok.v)
      [] tok.t = "true" -> PyBool(TRUE)
      [] tok.t = "false" -> PyBool(FALSE)
      [] tok.t = "null" -> None

RECURSIVE EncodeItems(_, _, _)
(* the chunks json's _iterencode_dict yields for the items of a dict:
   [item separator] key, key separator, value *)
EncodeItems(d, first, itemSep) ==
    IF d = <<>> THEN <<>>
    ELSE (IF first THEN <<>> ELSE itemSep)
         \o << Tok("str", d[1].k), Colon, Spaces(1), EncodeValue(d[1].v) >>
         \o EncodeItems(Tail(d), FALSE, itemSep)

(* json.dump(config_dict, f, indent=4): "{", newline and indent, the items
   separated by "," newline indent, newline, "}"; an empty dict is "{}" *)
json_dump(d) ==
    IF d = <<>> THEN << LBrace, RBrace >>
    ELSE << LBrace, Newline, Spaces(4) >>
         \o EncodeItems(d, TRUE, << Comma, Newline, Spaces(4) >>)
         \o << Newline, RBrace >>

(* json.dump(custom_config, f) as the tests write a document by hand:
   no indent, items separated by ", " *)
json_dump_compact(d) ==
    << LBrace >> \o EncodeItems(d, TRUE, << Comma, Spaces(1) >>) \o << RBrace >>

NoWhitespace(text) == SelectSeq(text, LAMBDA tok : ~IsWhitespace(tok))

RECURSIVE ParseMembers(_, _, _)
(* json.decoder.JSONObject after "{" when the next token is not "}": a string
   key, ":", a value, then "," and another member or "}".  The result is the
   dict and the index after "}", or an error.  Only flat documents are
   modelled: a value is a scalar. *)
ParseMembers(s, i, acc) ==
    IF i + 3 > Len(s) THEN [ok |-> FALSE, val |-> <<>>, next |-> 0]
    ELSE IF ~(s[i].t = "str" /\ s[i+1] = Colon /\ IsScalarToken(s[i+2]))
    THEN [ok |-> FALSE, val |-> <<>>, next |-> 0]
    ELSE LET acc2 == DictSet(acc, s[i].v, DecodeValue(s[i+2]))
         IN  IF s[i+3] = RBrace THEN [ok |-> TRUE, val |-> acc2, next |-> i + 4]
             ELSE IF s[i+3] = Comma THEN ParseMembers(s, i + 4, acc2)
             ELSE [ok |-> FALSE, val |-> <<>>, next |-> 0]

(* json.load(f): "dict" with the parsed mapping, "scalar" when the document
   is a single scalar, "error" (JSONDecodeError) otherwise: empty text, a
   malformed object, or extra data after the value *)
json_load(text) ==
    LET s == NoWhitespace(text)
    IN  IF s = <<>> THEN [kind |-> "error", val |-> <<>>]
        ELSE IF IsScalarToken(s[1])
        THEN [kind |-> IF Len(s) = 1 THEN "scalar" ELSE "error", val |-> <<>>]
        ELSE IF s[1] # LBrace THEN [kind |-> "error", val |-> <<>>]
        ELSE IF Len(s) >= 2 /\ s[2] = RBrace
        THEN [kind |-> IF Len(s) = 2 THEN "dict" ELSE "error", val |-> <<>>]
        ELSE LET r == ParseMembers(s, 2, <<>>)
             IN  IF r.ok /\ r.next = Len(s) + 1
                 THEN [kind |-> "dict", val |-> r.val]
                 ELSE [kind |-> "error", val |-> <<>>]

-----------------------------------------------------------------------------
(* The file system at CONFIG_PATH *)

NoFile(dirPresent) == [dir |-> dirPresent, exists |-> FALSE, data |-> <<>>]

(* makedirs that creates nothing *)
makedirs_missing(f) == f

(* os.makedirs(CONFIG_PATH.parent, exist_ok=True) *)
makedirs(f) == [f EXCEPT !.dir = TRUE]

(* open that creates the file but does not truncate it *)
open_no_truncate(f) == [f EXCEPT !.exists = TRUE]

(* open(CONFIG_PATH, 'w'): the file is created, or truncated to nothing *)
open_w(f) == [f EXCEPT !.exists = TRUE, !.data = <<>>]

(* the text written through a handle opened with 'w' lands at offset 0, over
   whatever the file holds by then; what lies beyond the text stays *)
write_text(f, text) ==
    [f EXCEPT !.data = text \o SubSeq(f.data, Len(text) + 1, Len(f.data))]

(* save_config(config_dict) *)
save_config(f, config_dict) ==
    write_text(open_w(makedirs(f)), json_dump(config_dict))

(* load_config whose JSONDecodeError branch returns the defaults without
   saving them *)
load_config_no_repair(f) ==
    IF ~f.exists
    THEN [exc |-> "none", path |-> "absent", ret |-> DEFAULT_CONFIG,
          fs |-> save_config(makedirs(f), DEFAULT_CONFIG)]
    ELSE LET loaded_config == json_load(f.data)
         IN  CASE loaded_config.kind = "dict" ->
                    [exc |-> "none", path |-> "parsed",
                     ret |-> Merge(DEFAULT_CONFIG, loaded_config.val), fs |-> f]
               [] loaded_config.kind = "error" ->
                    [exc |-> "none", path |-> "malformed", ret |-> DEFAULT_CONFIG, fs |-> f]
               [] loaded_config.kind = "scalar" ->
                    [exc |-> "TypeError", path |-> "parsed", ret |-> <<>>, fs |-> f]

(* load_config that does not catch JSONDecodeError *)
load_config_raises(f) ==
    IF ~f.exists
    THEN [exc |-> "none", path |-> "absent", ret |-> DEFAULT_CONFIG,
          fs |-> save_config(makedirs(f), DEFAULT_CONFIG)]
    ELSE LET loaded_config == json_load(f.data)
         IN  CASE loaded_config.kind = "dict" ->
                    [exc |-> "none", path |-> "parsed",
                     ret |-> Merge(DEFAULT_CONFIG, loaded_config.val), fs |-> f]
               [] loaded_config.kind = "error" ->
                    [exc |-> "JSONDecodeError", path |-> "malformed", ret |-> <<>>, fs |-> f]
               [] loaded_config.kind = "scalar" ->
                    [exc |-> "TypeError", path |-> "parsed", ret |-> <<>>, fs |-> f]

(* load_config that saves the merged configuration back after a good parse *)
load_config_writes_back(f) ==
    IF ~f.exists
    THEN [exc |-> "none", path |-> "absent", ret |-> DEFAULT_CONFIG,
          fs |-> save_config(makedirs(f), DEFAULT_CONFIG)]
    ELSE LET loaded_config == json_load(f.data)
         IN  CASE loaded_config.kind = "dict" ->
                    [exc |-> "none", path |-> "parsed",
                     ret |-> Merge(DEFAULT_CONFIG, loaded_config.val),
                     fs |-> save_config(f, Merge(DEFAULT_CONFIG, loaded_config.val))]
               [] loaded_config.kind = "error" ->
                    [exc |-> "none", path |-> "malformed", ret |-> DEFAULT_CONFIG,
                     fs |-> save_config(f, DEFAULT_CONFIG)]
               [] loaded_config.kind = "scalar" ->
                    [exc |-> "TypeError", path |-> "parsed", ret |-> <<>>, fs |-> f]

(* load_config(): what it returns (or raises), the branch it took and the file
   system it leaves.  open(.., 'r') raises FileNotFoundError when the file or
   its directory is missing; json.load raises JSONDecodeError on malformed
   text; {**a, **b} raises TypeError, which nothing catches, when b is not a
   mapping. *)
load_config(f) ==
    IF ~f.exists
    THEN [exc |-> "none", path |-> "absent", ret |-> DEFAULT_CONFIG,
          fs |-> save_config(makedirs(f), DEFAULT_CONFIG)]
    ELSE LET loaded_config == json_load(f.data)
         IN  CASE loaded_config.kind = "dict" ->
                    [exc |-> "none", path |-> "parsed",
                     ret |-> Merge(DEFAULT_CONFIG, loaded_config.val), fs |-> f]
               [] loaded_config.kind = "error" ->
                    [exc |-> "none", path |-> "malformed", ret |-> DEFAULT_CONFIG,
                     fs |-> save_config(f, DEFAULT_CONFIG)]
               [] loaded_config.kind = "scalar" ->
                    [exc |-> "TypeError", path |-> "parsed", ret |-> <<>>, fs |-> f]

(* get_config_value that looks the key up in DEFAULT_CONFIG alone *)
get_config_value_defaults_only(f, key, default) ==
    LET config == load_config(f)
    IN  [exc |-> config.exc,
         ret |-> IF config.exc = "none" THEN DictGet(DEFAULT_CONFIG, key, default) ELSE None,
         fs |-> config.fs]

(* get_config_value(key, default) *)
get_config_value(f, key, default) ==
    LET config == load_config(f)
    IN  [exc |-> config.exc,
         ret |-> IF config.exc = "none" THEN DictGet(config.ret, key, default) ELSE None,
         fs |-> config.fs]

(* set_config_value that starts from DEFAULT_CONFIG instead of the loaded
   configuration *)
set_config_value_from_defaults(f, key, value) ==
    LET config == load_config(f)
    IN  IF config.exc # "none" THEN [exc |-> config.exc, fs |-> config.fs]
        ELSE [exc |-> "none", fs |-> save_config(config.fs, DictSet(DEFAULT_CONFIG, key, value))]

(* set_config_value(key, value) *)
set_config_value(f, key, value) ==
    LET config == load_config(f)
    IN  IF config.exc # "none" THEN [exc |-> config.exc, fs |-> config.fs]
        ELSE [exc |-> "none", fs |-> save_config(config.fs, DictSet(config.ret, key, value))]

(* reset_to_defaults that puts the defaults over the loaded configuration and
   keeps its other keys *)
reset_keeps_custom(f) ==
    LET config == load_config(f)
    IN  [exc |-> "none", ret |-> DEFAULT_CONFIG,
         fs |-> save_config(config.fs, Merge(config.ret, DEFAULT_CONFIG))]

(* reset_to_defaults() *)
reset_to_defaults(f) ==
    [exc |-> "none", ret |-> DEFAULT_CONFIG, fs |-> save_config(f, DEFAULT_CONFIG)]

(* A token cut short: what a write that stops inside the token leaves *)
Torn(tok) ==
    CASE tok.t = "str" -> { Unterminated(tok.v) }
      [] tok.t = "int" -> IF tok.v >= 10 THEN { Tok("int", tok.v \div 10) } ELSE {}
      [] tok.t = "true" -> { Word("tru") }
      [] tok.t = "false" -> { Word("fals") }
      [] tok.t = "null" -> { Word("nul") }
      [] tok.t = "sp" -> { Spaces(n) : n \in 1..(tok.v - 1) }
      [] OTHER -> {}

(* The texts a write of `text` leaves behind when it stops before the end:
   the tokens written so far, and possibly a part of the next one *)
Truncations(text) ==
    UNION { { SubSeq(text, 1, n) }
            \cup { Append(SubSeq(text, 1, n), p) : p \in Torn(text[n + 1]) } :
            n \in 0..(Len(text) - 1) }

(* save_config(config_dict) in a process that dies between open(.., 'w') and
   the end of json.dump: the file systems it can leave *)
save_config_crash(f, config_dict) ==
    { write_text(open_w(makedirs(f)), t) : t \in Truncations(json_dump(config_dict)) }

-----------------------------------------------------------------------------
(* Inputs *)

(* keys given to set_config_value *)
SetKeys == { "min_liked_for_artist", "custom_setting" }

(* keys given to get_config_value *)
GetKeys == SetKeys \cup { "non_existent_key" }

(* values given to set_config_value *)
SetValues == { PyInt(5), PyStr("test") }

(* the `default` argument of get_config_value; None when it is not given *)
GetDefaults == { None, PyStr("default_value") }

(* mappings given to save_config *)
SaveInputs ==
    { << Entry("test_key", PyStr("test_value")), Entry("number_setting", PyInt(42)) >>,
      DictSet(DictSet(DEFAULT_CONFIG, "default_shuffle", PyBool(FALSE)),
              "custom_setting", PyStr("test")),
      <<>> }

(* valid documents written to the file by hand *)
Documents ==
    { json_dump_compact(<< Entry("default_preview_length", PyInt(45)),
                           Entry("custom_setting", PyStr("test")) >>),
      json_dump_compact(<< Entry("custom_setting", PyStr("should_be_removed")),
                           Entry("min_liked_for_artist", PyInt(999)) >>),
      << LBrace, Tok("str", "custom_setting"), Colon, Tok("null", 0), Comma,
         Tok("str", "custom_setting"), Colon, Tok("int", 5), RBrace, Newline >>,
      << LBrace, RBrace >> }

(* texts that are not valid JSON, written to the file by hand *)
InvalidTexts ==
    { << LBrace, Word("invalid"), Spaces(1), Word("json") >>,
      <<>>,
      << LBrace, Tok("str", "custom_setting"), Colon, Tok("int", 5), Comma, RBrace >>,
      << LBrace, RBrace, LBrace, RBrace >>,
      << LBrace, Tok("str", "custom_setting"), Tok("int", 5), RBrace >> }

-----------------------------------------------------------------------------
(* One caller at a time *)

(* the mapping a file holds: empty when there is no file or it does not parse *)
Persisted(f) ==
    IF f.exists /\ json_load(f.data).kind = "dict" THEN json_load(f.data).val ELSE <<>>

NoPrev == [name |-> "none", cfg |-> <<>>, path |-> "", had |-> {}]

NoOp ==
    [name |-> "none", key |-> "", value |-> None, cfg |-> <<>>, exc |-> "none",
     path |-> "", ret |-> <<>>, rv |-> None, pre |-> NoFile(FALSE), prev |-> NoPrev]

NoCrash == [pending |-> FALSE, before |-> NoFile(FALSE)]

NoRun == [active |-> FALSE, pre |-> NoFile(FALSE), sets |-> <<>>]

(* the record of a call: its name and arguments, the exception it raised, the
   branch load_config took, the mapping or the value it returned, the file
   system before it, and the call before it *)
Call(n, k, v, c, e, b, r, x) ==
    [name |-> n, key |-> k, value |-> v, cfg |-> c, exc |-> e, path |-> b,
     ret |-> r, rv |-> x, pre |-> fs,
     prev |-> [name |-> op.name, cfg |-> op.cfg, path |-> op.path,
               had |-> DictKeys(Persisted(op.pre))]]

RaceIdle ==
    /\ pc = [p \in {1, 2} |-> "idle"]
    /\ arg = [p \in {1, 2} |-> Entry("", None)]
    /\ loc = [p \in {1, 2} |-> <<>>]
    /\ seen = [p \in {1, 2} |-> <<>>]
    /\ clean = [p \in {1, 2} |-> TRUE]
    /\ last = 0

Init ==
    /\ fs \in { NoFile(TRUE), NoFile(FALSE) }
    /\ op = NoOp
    /\ run = NoRun
    /\ crash = NoCrash
    /\ RaceIdle

(* a call of the single caller: the process is alive, nobody else runs *)
Step ==
    /\ ~crash.pending
    /\ UNCHANGED <<pc, arg, loc, seen, clean, last>>

(* a call that runs to its end: no save of it is cut short *)
Whole == Step /\ UNCHANGED crash

(* config = load_config() *)
Load ==
    /\ Whole
    /\ LET r == load_config(fs)
       IN  /\ fs' = r.fs
           /\ op' = Call("Load", "", None, <<>>, r.exc, r.path, r.ret, None)
    /\ UNCHANGED run

(* save_config(X) *)
Save ==
    /\ Whole
    /\ \E X \in SaveInputs :
         /\ fs' = save_config(fs, X)
         /\ op' = Call("Save", "", None, X, "none", "", <<>>, None)
    /\ run' = NoRun

(* get_config_value(k, d) *)
GetValue ==
    /\ Whole
    /\ \E k \in GetKeys, d \in GetDefaults :
         LET r == get_config_value(fs, k, d)
         IN  /\ fs' = r.fs
             /\ op' = Call("GetValue", k, d, <<>>, r.exc, "", <<>>, r.ret)
    /\ UNCHANGED run

(* set_config_value(k, v) *)
SetValue ==
    /\ Whole
    /\ \E k \in SetKeys, v \in SetValues :
         LET r == set_config_value(fs, k, v)
         IN  /\ fs' = r.fs
             /\ op' = Call("SetValue", k, v, <<>>, r.exc, "", <<>>, None)
             /\ run' = IF r.exc # "none" THEN run
                       ELSE [active |-> TRUE,
                             pre |-> IF run.active THEN run.pre ELSE fs,
                             sets |-> DictSet(IF run.active THEN run.sets ELSE <<>>, k, v)]

(* reset_to_defaults() *)
Reset ==
    /\ Whole
    /\ LET r == reset_to_defaults(fs)
       IN  /\ fs' = r.fs
           /\ op' = Call("Reset", "", None, <<>>, r.exc, "", r.ret, None)
    /\ run' = NoRun

(* set_config_path(path) with a fresh path, as the tests' setUp does: no file,
   the parent directory there or not *)
SetConfigPath ==
    /\ Whole
    /\ \E d \in BOOLEAN :
         /\ fs' = NoFile(d)
         /\ op' = Call("SetConfigPath", "", None, <<>>, "none", "", <<>>, None)
    /\ run' = NoRun

(* the tests' json.dump(custom_config, f): a valid document put in the file
   directly *)
WriteDocument ==
    /\ Whole
    /\ fs.dir
    /\ \E text \in Documents :
         /\ fs' = write_text(open_w(fs), text)
         /\ op' = Call("WriteDocument", "", None, <<>>, "none", "", <<>>, None)
    /\ run' = NoRun

(* the tests' f.write('{invalid json'): invalid text put in the file directly *)
WriteInvalid ==
    /\ Whole
    /\ fs.dir
    /\ \E text \in InvalidTexts :
         /\ fs' = write_text(open_w(fs), text)
         /\ op' = Call("WriteInvalid", "", None, <<>>, "none", "", <<>>, None)
    /\ run' = NoRun

(* save_config(X) cut short by the death of the process *)
SaveCrash ==
    /\ Step
    /\ \E X \in SaveInputs \cup { DEFAULT_CONFIG } :
         /\ fs' \in save_config_crash(fs, X)
         /\ crash' = [pending |-> TRUE, before |-> fs]
         /\ op' = Call("SaveCrash", "", None, X, "crash", "", <<>>, None)
    /\ run' = NoRun

(* set_config_value(k, v) whose save_config is cut short by the death of the
   process *)
SetValueCrash ==
    /\ Step
    /\ \E k \in SetKeys, v \in SetValues :
         LET config == load_config(fs)
         IN  /\ config.exc = "none"
             /\ fs' \in save_config_crash(config.fs, DictSet(config.ret, k, v))
             /\ crash' = [pending |-> TRUE, before |-> fs]
             /\ op' = Call("SetValueCrash", k, v, <<>>, "crash", "", <<>>, None)
    /\ run' = NoRun

Next ==
    \/ Load
    \/ Save
    \/ GetValue
    \/ SetValue
    \/ Reset
    \/ SetConfigPath
    \/ WriteDocument
    \/ WriteInvalid

Spec == Init /\ [][Next]_vars

-----------------------------------------------------------------------------
(* A process that dies inside save_config, and the load_config of the next *)

(* load_config() in a new process, on the file the dead one left *)
LoadAfterCrash ==
    /\ crash.pending
    /\ op.exc = "crash"
    /\ LET r == load_config(fs)
       IN  /\ fs' = r.fs
           /\ op' = Call("Load", "", None, <<>>, r.exc, r.path, r.ret, None)
    /\ UNCHANGED <<run, crash, pc, arg, loc, seen, clean, last>>

CrashNext ==
    \/ Save
    \/ SetValue
    \/ Reset
    \/ WriteDocument
    \/ SaveCrash
    \/ SetValueCrash
    \/ LoadAfterCrash

SpecCrash == Init /\ [][CrashNext]_vars

-----------------------------------------------------------------------------
(* Two callers of set_config_value at once.  Each runs
       config = load_config(); config[key] = value; save_config(config)
   with no lock.  The steps that touch the file are the read of load_config,
   the open(.., 'w') of save_config, which truncates, and the write of the
   buffered text when the `with` block closes the file. *)

Procs == { 1, 2 }

(* files the two callers can find *)
RaceFiles ==
    { NoFile(TRUE),
      save_config(NoFile(TRUE), DEFAULT_CONFIG),
      write_text(open_w(NoFile(TRUE)),
                 json_dump_compact(<< Entry("default_preview_length", PyInt(45)),
                                      Entry("custom_setting", PyStr("test")) >>)),
      write_text(open_w(NoFile(TRUE)),
                 << LBrace, Word("invalid"), Spaces(1), Word("json") >>) }

RaceInit ==
    /\ fs \in RaceFiles
    /\ op = NoOp
    /\ run = NoRun
    /\ crash = NoCrash
    /\ RaceIdle

Saving(q) == pc[q] \in { "recover_write", "write" }

(* a write by p lands in the file: every other caller that has the file open
   for writing has lost the empty file its open(.., 'w') made *)
Dirtied(p) == [q \in Procs |-> IF q # p /\ Saving(q) THEN FALSE ELSE clean[q]]

(* set_config_value(key, value) is called *)
RaceCall(p) ==
    /\ pc[p] = "idle"
    /\ \E k \in SetKeys, v \in SetValues : arg' = [arg EXCEPT ![p] = Entry(k, v)]
    /\ pc' = [pc EXCEPT ![p] = "load"]
    /\ UNCHANGED <<fs, op, run, crash, loc, seen, clean, last>>

(* load_config(): open(.., 'r') and json.load; on a mapping, the merge and
   config[key] = value as well *)
RaceLoad(p) ==
    /\ pc[p] = "load"
    /\ LET loaded_config == json_load(fs.data)
       IN  IF fs.exists /\ loaded_config.kind = "dict"
           THEN LET config == Merge(DEFAULT_CONFIG, loaded_config.val)
                IN  /\ seen' = [seen EXCEPT ![p] = config]
                    /\ loc' = [loc EXCEPT ![p] = DictSet(config, arg[p].k, arg[p].v)]
                    /\ pc' = [pc EXCEPT ![p] = "save"]
                    /\ fs' = fs
           ELSE IF fs.exists /\ loaded_config.kind = "scalar"
           THEN /\ pc' = [pc EXCEPT ![p] = "failed"]
                /\ UNCHANGED <<fs, seen, loc>>
           ELSE /\ pc' = [pc EXCEPT ![p] = "recover"]
                /\ fs' = IF fs.exists THEN fs ELSE makedirs(fs)
                /\ UNCHANGED <<seen, loc>>
    /\ UNCHANGED <<op, run, crash, arg, clean, last>>

(* load_config(), except branch: save_config(DEFAULT_CONFIG) opens the file *)
RaceRecoverOpen(p) ==
    /\ pc[p] = "recover"
    /\ fs' = open_w(makedirs(fs))
    /\ clean' = [clean EXCEPT ![p] = TRUE]
    /\ pc' = [pc EXCEPT ![p] = "recover_write"]
    /\ UNCHANGED <<op, run, crash, arg, loc, seen, last>>

(* load_config(), except branch: the defaults are written, DEFAULT_CONFIG.copy()
   is returned, and config[key] = value *)
RaceRecoverWrite(p) ==
    /\ pc[p] = "recover_write"
    /\ fs' = write_text(fs, json_dump(DEFAULT_CONFIG))
    /\ clean' = Dirtied(p)
    /\ last' = p
    /\ seen' = [seen EXCEPT ![p] = DEFAULT_CONFIG]
    /\ loc' = [loc EXCEPT ![p] = DictSet(DEFAULT_CONFIG, arg[p].k, arg[p].v)]
    /\ pc' = [pc EXCEPT ![p] = "save"]
    /\ UNCHANGED <<op, run, crash, arg>>

(* save_config(config): os.makedirs and open(.., 'w') *)
RaceSaveOpen(p) ==
    /\ pc[p] = "save"
    /\ fs' = open_w(makedirs(fs))
    /\ clean' = [clean EXCEPT ![p] = TRUE]
    /\ pc' = [pc EXCEPT ![p] = "write"]
    /\ UNCHANGED <<op, run, crash, arg, loc, seen, last>>

(* save_config(config): json.dump and the close of the file *)
RaceSaveWrite(p) ==
    /\ pc[p] = "write"
    /\ fs' = write_text(fs, json_dump(loc[p]))
    /\ clean' = Dirtied(p)
    /\ last' = p
    /\ pc' = [pc EXCEPT ![p] = "done"]
    /\ UNCHANGED <<op, run, crash, arg, loc, seen>>

RaceNext ==
    \E p \in Procs :
        \/ RaceCall(p)
        \/ RaceLoad(p)
        \/ RaceRecoverOpen(p)
        \/ RaceRecoverWrite(p)
        \/ RaceSaveOpen(p)
        \/ RaceSaveWrite(p)

SpecRace == RaceInit /\ [][RaceNext]_vars

-----------------------------------------------------------------------------
(* Properties *)

DefaultKeys == DictKeys(DEFAULT_CONFIG)

(* the load-time view of a persisted mapping D: D's value for each key of D,
   the default for each default key D lacks, and no other key *)
IsUnion(config, D) ==
    /\ DictKeys(config) = DefaultKeys \cup DictKeys(D)
    /\ \A k \in DictKeys(D) : DictAt(config, k) = DictAt(D, k)
    /\ \A k \in DefaultKeys \ DictKeys(D) : DictAt(config, k) = DictAt(DEFAULT_CONFIG, k)

IsDefault(config) ==
    /\ DictKeys(config) = DefaultKeys
    /\ \A k \in DefaultKeys : DictAt(config, k) = DictAt(DEFAULT_CONFIG, k)

Returned(name) == op.name = name /\ op.exc = "none"

HoldsMapping(f) == f.exists /\ json_load(f.data).kind = "dict"

HoldsDefaults(f) ==
    /\ f.exists
    /\ f.dir
    /\ f.data = json_dump(DEFAULT_CONFIG)
    /\ HoldsMapping(f)
    /\ IsDefault(json_load(f.data).val)

TestDocument ==
    json_dump_compact(<< Entry("default_preview_length", PyInt(45)),
                         Entry("custom_setting", PyStr("test")) >>)

(* C1: every mapping load_config returns has every key of DEFAULT_CONFIG, and
   when the file held a valid document D it is exactly {**DEFAULT_CONFIG, **D}:
   D's value for every key of D, the default for every default key not in D. *)
C1_LoadReturnsUnion ==
    Returned("Load") =>
        /\ DefaultKeys \subseteq DictKeys(op.ret)
        /\ HoldsMapping(op.pre) => IsUnion(op.ret, json_load(op.pre.data).val)

C1_Witness ==
    /\ Returned("Load")
    /\ op.pre.exists
    /\ op.pre.data = TestDocument
    /\ Len(op.ret) = 7
    /\ DictAt(op.ret, "default_preview_length") = PyInt(45)
    /\ DictAt(op.ret, "custom_setting") = PyStr("test")
    /\ DictAt(op.ret, "min_liked_for_artist") = PyInt(1)

(* C2: after a sequence of set_config_value calls by one caller, load_config
   returns, for every key, the value of the last set_config_value of that key,
   and for a key never set the value it had before the sequence: the persisted
   value, else the default; a key with none of these is absent. *)
C2_SetValueThenLoad ==
    (Returned("Load") /\ run.active) =>
        LET before == Persisted(run.pre)
            Expected(k) ==
                IF k \in DictKeys(run.sets) THEN DictAt(run.sets, k)
                ELSE IF k \in DictKeys(before) THEN DictAt(before, k)
                ELSE DictAt(DEFAULT_CONFIG, k)
        IN  /\ DictKeys(op.ret) = DictKeys(run.sets) \cup DictKeys(before) \cup DefaultKeys
            /\ \A k \in DictKeys(op.ret) : DictAt(op.ret, k) = Expected(k)

C2_Witness ==
    /\ Returned("Load")
    /\ run.active
    /\ run.pre.exists
    /\ run.pre.data = TestDocument
    /\ Len(run.sets) = 2
    /\ DictAt(op.ret, "custom_setting") = PyInt(5)
    /\ DictAt(op.ret, "min_liked_for_artist") = PyStr("test")
    /\ DictAt(op.ret, "default_preview_length") = PyInt(45)

(* C3, as stated: load_config after save_config(X) returns exactly X. *)
C3_RoundTripIdentity ==
    (Returned("Load") /\ op.prev.name = "Save") => DictEq(op.ret, op.prev.cfg)

(* C3, amended: the file save_config(X) leaves parses to exactly X, and
   load_config after save_config(X) returns {**DEFAULT_CONFIG, **X}, which is X
   exactly when X has every key of DEFAULT_CONFIG. *)
C3_SaveThenLoadIsUnion ==
    /\ op.name = "Save" =>
          /\ HoldsMapping(fs)
          /\ DictEq(json_load(fs.data).val, op.cfg)
    /\ (Returned("Load") /\ op.prev.name = "Save") =>
          /\ IsUnion(op.ret, op.prev.cfg)
          /\ DictEq(op.ret, op.prev.cfg) <=> DefaultKeys \subseteq DictKeys(op.prev.cfg)

C3_Witness ==
    /\ Returned("Load")
    /\ op.prev.name = "Save"
    /\ DictKeys(op.prev.cfg) = { "test_key", "number_setting" }
    /\ DictAt(op.ret, "test_key") = PyStr("test_value")
    /\ DictAt(op.ret, "number_setting") = PyInt(42)
    /\ DictAt(op.ret, "default_shuffle") = PyBool(TRUE)

(* C4: load_config on a file of invalid syntax raises nothing, returns
   DEFAULT_CONFIG and leaves the file holding the serialized DEFAULT_CONFIG;
   the next load_config then parses the file and returns DEFAULT_CONFIG. *)
C4_CorruptFileRepaired ==
    /\ (op.name = "Load" /\ op.pre.exists /\ json_load(op.pre.data).kind = "error") =>
          /\ op.exc = "none"
          /\ op.path = "malformed"
          /\ IsDefault(op.ret)
          /\ HoldsDefaults(fs)
    /\ (op.name = "Load" /\ op.prev.name = "Load" /\ op.prev.path = "malformed") =>
          /\ op.exc = "none"
          /\ op.path = "parsed"
          /\ IsDefault(op.ret)
          /\ fs = op.pre

C4_Witness ==
    /\ op.name = "Load"
    /\ op.prev.name = "WriteInvalid"
    /\ op.pre.data = << LBrace, Word("invalid"), Spaces(1), Word("json") >>
    /\ op.path = "malformed"
    /\ IsDefault(op.ret)

(* C5: load_config on a fresh path, the parent directory there or not, returns
   exactly DEFAULT_CONFIG and leaves the directory and a file holding the
   serialized DEFAULT_CONFIG. *)
C5_FreshPathCreatesDefaults ==
    (op.name = "Load" /\ ~op.pre.exists) =>
        /\ op.exc = "none"
        /\ op.path = "absent"
        /\ IsDefault(op.ret)
        /\ HoldsDefaults(fs)

C5_Witness ==
    /\ op.name = "Load"
    /\ ~op.pre.exists
    /\ ~op.pre.dir
    /\ fs.exists
    /\ IsDefault(op.ret)

(* C6: whatever the file held, reset_to_defaults returns DEFAULT_CONFIG and
   leaves a file that parses to exactly DEFAULT_CONFIG, and load_config after
   it returns exactly DEFAULT_CONFIG: no custom key is left. *)
C6_ResetRestoresDefaults ==
    /\ op.name = "Reset" =>
          /\ op.exc = "none"
          /\ IsDefault(op.ret)
          /\ HoldsDefaults(fs)
    /\ (op.name = "Load" /\ op.prev.name = "Reset") =>
          /\ op.exc = "none"
          /\ IsDefault(op.ret)
          /\ "custom_setting" \notin DictKeys(op.ret)

C6_Witness ==
    /\ Returned("Load")
    /\ op.prev.name = "Reset"
    /\ "custom_setting" \in op.prev.had
    /\ "min_liked_for_artist" \in op.prev.had
    /\ IsDefault(op.ret)

(* C7: get_config_value(k, d) returns the persisted value when the file has k,
   else the default value when k is a default key, else d, which is None when
   no default is given. *)
C7_GetValue ==
    Returned("GetValue") =>
        LET persisted == Persisted(op.pre)
        IN  op.rv = IF op.key \in DictKeys(persisted) THEN DictAt(persisted, op.key)
                    ELSE IF op.key \in DefaultKeys THEN DictAt(DEFAULT_CONFIG, op.key)
                    ELSE op.value

C7_Witness ==
    /\ Returned("GetValue")
    /\ op.key = "min_liked_for_artist"
    /\ op.value = PyStr("default_value")
    /\ HoldsMapping(op.pre)
    /\ DictGet(Persisted(op.pre), "min_liked_for_artist", None) = PyInt(999)
    /\ op.rv = PyInt(999)

(* C10: load_config and get_config_value leave a file that parses to a mapping
   exactly as it was; they write only when the file is absent or malformed. *)
C10_ReadsLeaveValidFile ==
    (op.name \in { "Load", "GetValue" } /\ HoldsMapping(op.pre)) => fs = op.pre

C10_Witness ==
    /\ op.name = "GetValue"
    /\ op.prev.name = "Load"
    /\ op.pre.data = TestDocument
    /\ fs.data = TestDocument
    /\ ~DefaultKeys \subseteq DictKeys(Persisted(fs))

(* C9: a save_config cut short leaves a file that does not parse, and the next
   load_config takes it for malformed: it raises nothing, returns
   DEFAULT_CONFIG and overwrites the file with the defaults, so that no
   custom value persisted before is left. *)
C9_CrashThenLoadResets ==
    /\ op.exc = "crash" =>
          /\ fs.exists
          /\ json_load(fs.data).kind = "error"
    /\ (op.name = "Load" /\ crash.pending) =>
          /\ op.exc = "none"
          /\ op.path = "malformed"
          /\ IsDefault(op.ret)
          /\ HoldsDefaults(fs)

C9_Witness ==
    /\ op.name = "Load"
    /\ crash.pending
    /\ op.prev.name = "SetValueCrash"
    /\ DictGet(Persisted(crash.before), "custom_setting", None) = PyStr("test")
    /\ DictGet(Persisted(crash.before), "default_preview_length", None) = PyInt(45)
    /\ op.pre.data # <<>>
    /\ IsDefault(Persisted(fs))

AllDone == \A p \in Procs : pc[p] = "done"

(* the update of caller p is in the file *)
Kept(p) == DictGet(Persisted(fs), arg[p].k, None) = arg[p].v

(* C8, as stated: whenever both set_config_value calls have returned, the file
   holds the mapping written by the save_config that completed last. *)
C8_LastSaveWins ==
    AllDone => fs.data = json_dump(loc[last])

(* C8, amended: whenever both calls have returned and no write of the other
   caller landed between the open(.., 'w') and the write of the save that
   completed last, the file holds what that save wrote: the configuration its
   caller had loaded with that caller's key set, and so nothing of the other
   caller's update that was not in the file when it loaded. *)
C8_LastCleanSaveWins ==
    (AllDone /\ clean[last]) =>
        /\ fs.data = json_dump(loc[last])
        /\ HoldsMapping(fs)
        /\ DictEq(json_load(fs.data).val, DictSet(seen[last], arg[last].k, arg[last].v))
        /\ \A p \in Procs :
             (p # last /\ arg[p].k # arg[last].k
                /\ DictGet(seen[last], arg[p].k, None) # arg[p].v) => ~Kept(p)

(* a lost update: both calls have returned, on different keys, the file parses
   and one of the two values is not in it *)
C8_Witness ==
    /\ AllDone
    /\ clean[last]
    /\ arg[1].k # arg[2].k
    /\ HoldsMapping(fs)
    /\ Kept(last)
    /\ \E p \in Procs : ~Kept(p)

====
